---- MODULE Spec2Model ----
(***************************************************************************)
(* Model of the calendar feed registry, the batched collection run and     *)
(* feed discovery of src/location-feed-discoverer.ts.                      *)
(*                                                                         *)
(* Source objects live in `heap` (one entry per JavaScript object), the    *)
(* registry array `sources` and the run's `activeSources` hold references  *)
(* into it, as the arrays of the program hold object references.           *)
(***************************************************************************)
EXTENDS Integers, Sequences, FiniteSets, TLC

VARIABLES
  heap,           \* the CalendarSource objects ever held by the registry
  sources,        \* CalendarFeedCollector.sources: sequence of references
  now,            \* the wall clock read by Date.now() / new Date()
  pc,             \* position of the collectFromAllSources call
  activeSources,  \* the run's local `activeSources`
  i,              \* the run's loop variable `i`
  tasks,          \* the promises of the batch being awaited
  allEvents,      \* the run's local `allEvents`
  ret,            \* the last registry call and what it returned
  calls,          \* number of calls made to the collector so far
  settled,        \* history: the tasks of the run joined so far
  startActive,    \* history: the sources that were active when the run started
  toggled,        \* history: ids toggleSource has flipped so far
  dpc,            \* position of the discovery call
  discovered,     \* the DiscoveredFeed[] the discovery call returns
  probe,          \* history: the discovery call, its network and its requests
  fallback,       \* the last generateFallbackEvents call and its result
  sync,           \* the syncEventsToStorage call: its loop and the store
  domains,        \* the candidate domains generated for a place
  parsed          \* a feed entry and the event a parser emitted for it

vars == << heap, sources, now, pc, activeSources, i, tasks, allEvents,
           ret, calls, settled, startActive, toggled, dpc, discovered,
           probe, fallback, sync, domains, parsed >>

(***************************************************************************)
(* Bounds of the model.                                                    *)
(***************************************************************************)
SeedSize == 6      \* seeded sources kept in the registry at the start
MaxCalls == 3      \* calls (toggle / add / remove / collect) per behaviour
MaxEntries == 11   \* entries of the largest feed a server returns
MaxLinks == 11     \* calendar / events anchors of the largest homepage

(***************************************************************************)
(* JavaScript string functions, on TLC strings.                            *)
(***************************************************************************)
Min(a, b) == IF a < b THEN a ELSE b

Range(s) == { s[k] : k \in 1..Len(s) }

CharAt(s, k) == SubSeq(s, k, k)

Includes(s, sub) ==
  \E k \in 1..(Len(s) - Len(sub) + 1) : SubSeq(s, k, k + Len(sub) - 1) = sub

StartsWith(s, sub) ==
  Len(sub) <= Len(s) /\ SubSeq(s, 1, Len(sub)) = sub

EndsWith(s, sub) ==
  Len(sub) <= Len(s) /\ SubSeq(s, Len(s) - Len(sub) + 1, Len(s)) = sub

UpperChars == "ABCDEFGHIJKLMNOPQRSTUVWXYZ"
LowerChars == "abcdefghijklmnopqrstuvwxyz"

\* the lower case letter of every upper case letter
LowerTable ==
  [c \in { CharAt(UpperChars, k) : k \in 1..Len(UpperChars) } |->
     CharAt(LowerChars, CHOOSE k \in 1..Len(UpperChars) : CharAt(UpperChars, k) = c)]

LowerChar(c) == IF c \in DOMAIN LowerTable THEN LowerTable[c] ELSE c

RECURSIVE ToLowerCase(_)
ToLowerCase(s) ==
  IF Len(s) = 0 THEN ""
  ELSE LowerChar(CharAt(s, 1)) \o ToLowerCase(SubSeq(s, 2, Len(s)))

IsSpace(c) == c = " "

\* the least index from `from` on at which s holds the character c; 0 if none
IndexFrom(s, c, from) ==
  LET hits == { k \in from..Len(s) : CharAt(s, k) = c }
  IN  IF hits = {} THEN 0 ELSE CHOOSE k \in hits : \A m \in hits : k <= m

\* the rest of s after index k
After(s, k) == SubSeq(s, k + 1, Len(s))

\* s without the whitespace it starts with
DropLeadingSpaces(s) ==
  LET rest == { k \in 1..Len(s) : ~IsSpace(CharAt(s, k)) }
  IN  IF rest = {} THEN ""
      ELSE SubSeq(s, CHOOSE k \in rest : \A m \in rest : k <= m, Len(s))

\* s.replace(/\s+/g, rep): every maximal run of whitespace becomes rep
RECURSIVE ReplaceSpaceRuns(_, _)
ReplaceSpaceRuns(s, rep) ==
  IF IndexFrom(s, " ", 1) = 0 THEN s
  ELSE (SubSeq(s, 1, IndexFrom(s, " ", 1) - 1) \o rep)
         \o ReplaceSpaceRuns(DropLeadingSpaces(After(s, IndexFrom(s, " ", 1))), rep)

\* new URL(u).origin: scheme, "://" and host, without path
UrlOrigin(u) ==
  LET k0 == CHOOSE k \in 1..Len(u) : SubSeq(u, k, k + 2) = "://"
      rest == { k \in (k0 + 3)..Len(u) : CharAt(u, k) = "/" }
  IN  IF rest = {} THEN u
      ELSE SubSeq(u, 1, (CHOOSE k \in rest : \A m \in rest : k <= m) - 1)

(***************************************************************************)
(* The registry's seed (CalendarFeedCollector.sources initialiser).        *)
(***************************************************************************)
Undefined == "<undefined>"   \* an absent optional field (feedUrl, websiteUrl)
NoSync == 0                  \* lastSync not set

SeedSources ==
    << [id |-> "san-francisco-city", city |-> "San Francisco", state |-> "CA", type |-> "city",
        feedUrl |-> "https://sfgov.org/calendar/feed",
        websiteUrl |-> "https://sfgov.org/calendar",
        isActive |-> TRUE, feedType |-> "ical", lastSync |-> NoSync],
       [id |-> "los-angeles-city", city |-> "Los Angeles", state |-> "CA", type |-> "city",
        feedUrl |-> "https://www.lacity.org/events/feed",
        websiteUrl |-> "https://www.lacity.org/events",
        isActive |-> TRUE, feedType |-> "rss", lastSync |-> NoSync],
       [id |-> "san-diego-chamber", city |-> "San Diego", state |-> "CA", type |-> "chamber",
        feedUrl |-> "https://www.sdchamber.org/events.ics",
        websiteUrl |-> "https://www.sdchamber.org/events",
        isActive |-> TRUE, feedType |-> "ical", lastSync |-> NoSync],
       [id |-> "austin-city", city |-> "Austin", state |-> "TX", type |-> "city",
        feedUrl |-> "https://www.austintexas.gov/calendar/feed",
        websiteUrl |-> "https://www.austintexas.gov/calendar",
        isActive |-> TRUE, feedType |-> "ical", lastSync |-> NoSync],
       [id |-> "houston-chamber", city |-> "Houston", state |-> "TX", type |-> "chamber",
        feedUrl |-> "https://www.houston.org/events.rss",
        websiteUrl |-> "https://www.houston.org/events",
        isActive |-> TRUE, feedType |-> "rss", lastSync |-> NoSync],
       [id |-> "dallas-schools", city |-> "Dallas", state |-> "TX", type |-> "school",
        feedUrl |-> "https://www.dallasisd.org/calendar.ics",
        websiteUrl |-> "https://www.dallasisd.org/calendar",
        isActive |-> TRUE, feedType |-> "ical", lastSync |-> NoSync],
       [id |-> "nyc-events", city |-> "New York", state |-> "NY", type |-> "city",
        feedUrl |-> "https://www1.nyc.gov/calendar/api/v1/events.json",
        websiteUrl |-> "https://www1.nyc.gov/calendar",
        isActive |-> TRUE, feedType |-> "json", lastSync |-> NoSync],
       [id |-> "brooklyn-chamber", city |-> "Brooklyn", state |-> "NY", type |-> "chamber",
        feedUrl |-> "https://www.brooklynchamber.com/events/feed",
        websiteUrl |-> "https://www.brooklynchamber.com/events",
        isActive |-> TRUE, feedType |-> "rss", lastSync |-> NoSync],
       [id |-> "miami-city", city |-> "Miami", state |-> "FL", type |-> "city",
        feedUrl |-> "https://www.miamigov.com/calendar/feed.ics",
        websiteUrl |-> "https://www.miamigov.com/calendar",
        isActive |-> TRUE, feedType |-> "ical", lastSync |-> NoSync],
       [id |-> "orlando-chamber", city |-> "Orlando", state |-> "FL", type |-> "chamber",
        feedUrl |-> "https://www.orlando.org/events.rss",
        websiteUrl |-> "https://www.orlando.org/events",
        isActive |-> TRUE, feedType |-> "rss", lastSync |-> NoSync],
       [id |-> "chicago-city", city |-> "Chicago", state |-> "IL", type |-> "city",
        feedUrl |-> "https://www.chicago.gov/calendar.ics",
        websiteUrl |-> "https://www.chicago.gov/calendar",
        isActive |-> TRUE, feedType |-> "ical", lastSync |-> NoSync],
       [id |-> "chicago-schools", city |-> "Chicago", state |-> "IL", type |-> "school",
        feedUrl |-> "https://www.cps.edu/calendar/feed",
        websiteUrl |-> "https://www.cps.edu/calendar",
        isActive |-> TRUE, feedType |-> "rss", lastSync |-> NoSync],
       [id |-> "seattle-city", city |-> "Seattle", state |-> "WA", type |-> "city",
        feedUrl |-> "https://www.seattle.gov/calendar.ics",
        websiteUrl |-> "https://www.seattle.gov/calendar",
        isActive |-> TRUE, feedType |-> "ical", lastSync |-> NoSync],
       [id |-> "seattle-chamber", city |-> "Seattle", state |-> "WA", type |-> "chamber",
        feedUrl |-> "https://www.seattlechamber.com/events/feed",
        websiteUrl |-> "https://www.seattlechamber.com/events",
        isActive |-> TRUE, feedType |-> "rss", lastSync |-> NoSync],
       [id |-> "denver-city", city |-> "Denver", state |-> "CO", type |-> "city",
        feedUrl |-> "https://www.denvergov.org/calendar.ics",
        websiteUrl |-> "https://www.denvergov.org/calendar",
        isActive |-> TRUE, feedType |-> "ical", lastSync |-> NoSync],
       [id |-> "atlanta-chamber", city |-> "Atlanta", state |-> "GA", type |-> "chamber",
        feedUrl |-> "https://www.metroatlantachamber.com/events.rss",
        websiteUrl |-> "https://www.metroatlantachamber.com/events",
        isActive |-> TRUE, feedType |-> "rss", lastSync |-> NoSync],
       [id |-> "phoenix-city", city |-> "Phoenix", state |-> "AZ", type |-> "city",
        feedUrl |-> "https://www.phoenix.gov/calendar/feed.ics",
        websiteUrl |-> "https://www.phoenix.gov/calendar",
        isActive |-> TRUE, feedType |-> "ical", lastSync |-> NoSync],
       [id |-> "philadelphia-schools", city |-> "Philadelphia", state |-> "PA", type |-> "school",
        feedUrl |-> "https://www.philasd.org/calendar.ics",
        websiteUrl |-> "https://www.philasd.org/calendar",
        isActive |-> TRUE, feedType |-> "ical", lastSync |-> NoSync] >>


\* The registry at the start: the seed with its entries after the first
\* SeedSize removed (the state after removeSource of each of them).
InitialSources == SubSeq(SeedSources, 1, Min(SeedSize, Len(SeedSources)))

(***************************************************************************)
(* Feed validation of the discoverer (LocationFeedDiscoverer).             *)
(* Confidence is kept in tenths: 3 stands for 0.3, 10 for 1.0.             *)
(***************************************************************************)
GovBoost == 2
KnownPatternBoost == 3
MaxConfidence == 10

\* the feed type and base confidence rules, first match wins
ClassifyFeed(feedUrl, contentType) ==
  IF Includes(contentType, "text/calendar") \/ EndsWith(feedUrl, ".ics")
  THEN [feedType |-> "ical", confidence |-> 9]
  ELSE IF \/ Includes(contentType, "application/rss")
          \/ Includes(contentType, "xml")
          \/ Includes(feedUrl, "rss")
          \/ Includes(feedUrl, ".xml")
  THEN [feedType |-> "rss", confidence |-> 8]
  ELSE IF \/ Includes(contentType, "application/json")
          \/ Includes(feedUrl, "api")
          \/ Includes(feedUrl, ".json")
  THEN [feedType |-> "json", confidence |-> 7]
  ELSE IF Includes(feedUrl, "calendar") \/ Includes(feedUrl, "events")
  THEN [feedType |-> "html", confidence |-> 5]
  ELSE [feedType |-> "html", confidence |-> 3]

GovernmentBoost(feedUrl, confidence) ==
  IF Includes(feedUrl, ".gov") THEN confidence + GovBoost ELSE confidence

\* Math.min left out
ClampConfidenceMissing(confidence) == confidence

ClampConfidence(confidence) == Min(confidence, MaxConfidence)

DiscoveredId(location, t) ==
  "discovered-" \o ReplaceSpaceRuns(ToLowerCase(location.city), "-")
     \o "-" \o location.organizationType \o "-" \o ToString(t)

DiscoveredIsActive == FALSE

\* validateFeedUrl: head is the HEAD response ([ok, contentType]), t the
\* value of Date.now(); the result is <<feed>> or, for null, << >>
ValidateFeedUrl(feedUrl, location, head, t) ==
  IF ~head.ok THEN << >>
  ELSE LET c == ClassifyFeed(feedUrl, head.contentType)
       IN << [ source |->
                 [ id |-> DiscoveredId(location, t),
                   city |-> location.city,
                   state |-> location.state,
                   type |-> location.organizationType,
                   feedUrl |-> feedUrl,
                   websiteUrl |-> UrlOrigin(feedUrl),
                   isActive |-> DiscoveredIsActive,
                   feedType |-> c.feedType,
                   lastSync |-> NoSync ],
               confidence |-> ClampConfidence(GovernmentBoost(feedUrl, c.confidence)),
               lastChecked |-> t ] >>

(***************************************************************************)
(* Discovery (LocationFeedDiscoverer).  The network is an input `net`:     *)
(*   net.status      root status per probed domain (0: no response)        *)
(*   net.links       the hrefs of the homepage's calendar / events anchors *)
(*   net.headFail    suffixes of the URLs whose HEAD request fails         *)
(*   net.contentType the content type the other HEAD requests answer with  *)
(*   net.tick        clock ticks between two validations                   *)
(***************************************************************************)
commonFeedPaths ==
  << "/calendar", "/events", "/calendar.ics", "/events.ics", "/calendar/feed",
     "/events/feed", "/calendar.rss", "/events.rss", "/api/events",
     "/api/calendar", "/feeds/calendar", "/feeds/events" >>

governmentDomainPatterns ==
  << "{city}.gov", "{city}.{state}.gov", "www.{city}.gov",
     "www.{city}.{state}.gov", "{city}{state}.gov", "city{city}.gov",
     "cityof{city}.gov" >>

schoolDistrictPatterns ==
  << "{city}schools.org", "{city}schools.edu", "{city}sd.org", "{city}isd.org",
     "www.{city}schools.org", "www.{city}schools.edu" >>

chamberPatterns ==
  << "{city}chamber.org", "{city}chamber.com", "www.{city}chamber.org",
     "www.{city}chamber.com", "{city}chamberofcommerce.org",
     "{city}chamberofcommerce.com" >>

PathLimit == 10

SlugChars == "abcdefghijklmnopqrstuvwxyz0123456789"

SlugCharSet == { CharAt(SlugChars, k) : k \in 1..Len(SlugChars) }

IsSlugChar(c) == c \in SlugCharSet

\* the upper case letter of every lower case letter
UpperTable ==
  [c \in { CharAt(LowerChars, k) : k \in 1..Len(LowerChars) } |->
     CharAt(UpperChars, CHOOSE k \in 1..Len(LowerChars) : CharAt(LowerChars, k) = c)]

UpperChar(c) == IF c \in DOMAIN UpperTable THEN UpperTable[c] ELSE c

RECURSIVE ToUpperCase(_)
ToUpperCase(s) ==
  IF Len(s) = 0 THEN ""
  ELSE UpperChar(CharAt(s, 1)) \o ToUpperCase(SubSeq(s, 2, Len(s)))

RECURSIVE Trim(_)
Trim(s) ==
  IF Len(s) = 0 THEN ""
  ELSE IF IsSpace(CharAt(s, 1)) THEN Trim(SubSeq(s, 2, Len(s)))
  ELSE IF IsSpace(CharAt(s, Len(s))) THEN Trim(SubSeq(s, 1, Len(s) - 1))
  ELSE s

RECURSIVE KeepSlugChars(_)
KeepSlugChars(s) ==
  IF Len(s) = 0 THEN ""
  ELSE (IF IsSlugChar(CharAt(s, 1)) THEN CharAt(s, 1) ELSE "")
         \o KeepSlugChars(SubSeq(s, 2, Len(s)))

\* createCitySlug: lower case, whitespace removed, then all but a-z0-9 removed
CreateCitySlug(city) == KeepSlugChars(ReplaceSpaceRuns(ToLowerCase(city), ""))

\* s.replace(pat, rep) with a string pattern: the first occurrence only
ReplaceFirst(s, pat, rep) ==
  LET hits == { k \in 1..(Len(s) - Len(pat) + 1) : SubSeq(s, k, k + Len(pat) - 1) = pat }
  IN  IF hits = {} THEN s
      ELSE LET k == CHOOSE h \in hits : \A m \in hits : h <= m
           IN  SubSeq(s, 1, k - 1) \o rep \o SubSeq(s, k + Len(pat), Len(s))

DomainOf(pattern, citySlug, stateSlug) ==
  ReplaceFirst(ReplaceFirst(pattern, "{city}", citySlug), "{state}", stateSlug)

StateMap ==
  {
    <<"alabama", "AL">>, <<"alaska", "AK">>, <<"arizona", "AZ">>, <<"arkansas", "AR">>,
    <<"california", "CA">>, <<"colorado", "CO">>, <<"connecticut", "CT">>, <<"delaware", "DE">>,
    <<"florida", "FL">>, <<"georgia", "GA">>, <<"hawaii", "HI">>, <<"idaho", "ID">>,
    <<"illinois", "IL">>, <<"indiana", "IN">>, <<"iowa", "IA">>, <<"kansas", "KS">>,
    <<"kentucky", "KY">>, <<"louisiana", "LA">>, <<"maine", "ME">>, <<"maryland", "MD">>,
    <<"massachusetts", "MA">>, <<"michigan", "MI">>, <<"minnesota", "MN">>, <<"mississippi", "MS">>,
    <<"missouri", "MO">>, <<"montana", "MT">>, <<"nebraska", "NE">>, <<"nevada", "NV">>,
    <<"new hampshire", "NH">>, <<"new jersey", "NJ">>, <<"new mexico", "NM">>, <<"new york", "NY">>,
    <<"north carolina", "NC">>, <<"north dakota", "ND">>, <<"ohio", "OH">>, <<"oklahoma", "OK">>,
    <<"oregon", "OR">>, <<"pennsylvania", "PA">>, <<"rhode island", "RI">>, <<"south carolina", "SC">>,
    <<"south dakota", "SD">>, <<"tennessee", "TN">>, <<"texas", "TX">>, <<"utah", "UT">>,
    <<"vermont", "VT">>, <<"virginia", "VA">>, <<"washington", "WA">>, <<"west virginia", "WV">>,
    <<"wisconsin", "WI">>, <<"wyoming", "WY">>
  }

\* getStateAbbreviation
GetStateAbbreviation(stateName) ==
  LET normalized == Trim(ToLowerCase(stateName))
  IN  IF \E e \in StateMap : e[1] = normalized
      THEN (CHOOSE e \in StateMap : e[1] = normalized)[2]
      ELSE SubSeq(ToUpperCase(stateName), 1, Min(2, Len(stateName)))

\* new URL(href, baseUrl).pathname for a base without path
UrlPathname(href) ==
  IF Includes(href, "://")
  THEN LET o == UrlOrigin(href)
       IN  IF Len(o) = Len(href) THEN "/" ELSE SubSeq(href, Len(o) + 1, Len(href))
  ELSE "/" \o href

\* the path checkDomainForFeeds derives from an anchor's href
PathOfHref(href) == IF StartsWith(href, "/") THEN href ELSE UrlPathname(href)

\* insertion into a Set<string>: a sequence without repetitions, in
\* insertion order
RECURSIVE AddAll(_, _)
AddAll(set, items) ==
  IF Len(items) = 0 THEN set
  ELSE AddAll(IF Head(items) \in Range(set) THEN set ELSE Append(set, Head(items)),
              Tail(items))

\* the paths without the slice: every path found is validated
PathsToCheckUncapped(links) ==
  AddAll(AddAll(<< >>, [k \in 1..Len(links) |-> PathOfHref(links[k])]),
         commonFeedPaths)

\* the paths checkDomainForFeeds validates: the homepage's, then the
\* common ones, cut to the first 10
PathsToCheck(links) ==
  LET all == AddAll(AddAll(<< >>, [k \in 1..Len(links) |-> PathOfHref(links[k])]),
                    commonFeedPaths)
  IN  SubSeq(all, 1, Min(PathLimit, Len(all)))

\* new URL(href, baseUrl) throws on an absolute href whose host holds a
\* forbidden code point (a space); a relative href always resolves
UrlParses(href) ==
  IF ~Includes(href, "://") THEN TRUE
  ELSE LET o == UrlOrigin(href)
           k0 == CHOOSE k \in 1..Len(o) : SubSeq(o, k, k + 2) = "://"
       IN  ~Includes(SubSeq(o, k0 + 3, Len(o)), " ")

\* the homepage scan completes: no href makes new URL throw
HomepageScans(links) ==
  \A k \in 1..Len(links) : StartsWith(links[k], "/") \/ UrlParses(links[k])

RootStatus(net, domain) ==
  IF domain \in DOMAIN net.status THEN net.status[domain] ELSE 0

HeadOf(net, feedUrl) ==
  IF \E suffix \in net.headFail : EndsWith(feedUrl, suffix)
  THEN [ok |-> FALSE, contentType |-> ""]
  ELSE [ok |-> TRUE, contentType |-> net.contentType]

\* validateStatus: (status) => status < 400
RootProbeThrowsFrom400(status) == status = 0 \/ status >= 400

\* the root probe throws: no response, or a status axios rejects (>= 500)
RootProbeThrows(status) == status = 0 \/ status >= 500

\* the result a discovery loop starts from: the feeds pushed so far, the
\* URLs a HEAD request was sent to so far, and whether an error escaped
NoFeeds == [feeds |-> << >>, validated |-> << >>, threw |-> FALSE]

\* the URL checkDomainForFeeds validates for a path
PathUrl(path, baseUrl) == IF StartsWith(path, "http") THEN path ELSE baseUrl \o path

\* one pass of the loop over the paths: feedUrl is validated and its feed,
\* if there is one, pushed.  acc is the result so far; the clock reads
\* t + n * net.tick at the validation after n earlier ones
PathValidated(acc, feedUrl, location, net, t) ==
  [acc EXCEPT
     !.feeds = @ \o ValidateFeedUrl(feedUrl, location, HeadOf(net, feedUrl),
                                    t + Len(acc.validated) * net.tick),
     !.validated = Append(@, feedUrl)]

\* the loop over the paths with validateFeedUrl's error escaping to the
\* domain's catch: the first failing HEAD ends the loop
RECURSIVE ValidatePathsAbortOnFailure(_, _, _, _, _, _)
AbortUnlessPushed(next, acc, paths, baseUrl, location, net, t) ==
  IF Len(next.feeds) = Len(acc.feeds) THEN next
  ELSE ValidatePathsAbortOnFailure(paths, baseUrl, location, net, t, next)

ValidatePathsAbortOnFailure(paths, baseUrl, location, net, t, acc) ==
  IF Len(paths) = 0 THEN acc
  ELSE AbortUnlessPushed(
         PathValidated(acc, PathUrl(Head(paths), baseUrl), location, net, t),
         acc, Tail(paths), baseUrl, location, net, t)

\* the loop over the paths of one domain
RECURSIVE ValidatePaths(_, _, _, _, _, _)
ValidatePaths(paths, baseUrl, location, net, t, acc) ==
  IF Len(paths) = 0 THEN acc
  ELSE ValidatePaths(Tail(paths), baseUrl, location, net, t,
         PathValidated(acc, PathUrl(Head(paths), baseUrl), location, net, t))

\* checkDomainForFeeds without the check of the root status against 404
CheckDomainForFeedsNo404(domain, location, net, t, acc) ==
  IF RootProbeThrows(RootStatus(net, domain)) THEN acc
  ELSE IF ~HomepageScans(net.links) THEN acc
  ELSE ValidatePaths(PathsToCheck(net.links), "https://" \o domain,
                     location, net, t, acc)

\* checkDomainForFeeds, its feeds pushed onto the caller's: the catch turns
\* every error of the body into the empty contribution, so no error escapes
CheckDomainForFeeds(domain, location, net, t, acc) ==
  IF RootProbeThrows(RootStatus(net, domain)) THEN acc
  ELSE IF RootStatus(net, domain) = 404 THEN acc
  ELSE IF ~HomepageScans(net.links) THEN acc
  ELSE ValidatePaths(PathsToCheck(net.links), "https://" \o domain,
                     location, net, t, acc)

\* discoverGovernmentFeeds / discoverSchoolFeeds / discoverChamberFeeds; an
\* error of an awaited call would end the loop and reach the caller
RECURSIVE DiscoverFamily(_, _, _, _, _, _, _)
DiscoverFamily(patterns, organizationType, location, slugs, net, t, acc) ==
  IF Len(patterns) = 0 \/ acc.threw THEN acc
  ELSE DiscoverFamily(Tail(patterns), organizationType, location, slugs, net, t,
         CheckDomainForFeeds(
           DomainOf(Head(patterns), slugs.city, slugs.state),
           [city |-> location.city, state |-> location.state,
            organizationType |-> organizationType],
           net, t, acc))

\* the sort left out
SortByConfidenceMissing(feeds) == feeds

\* Array.prototype.sort((a, b) => b.confidence - a.confidence): stable
RECURSIVE InsertByConfidence(_, _)
InsertByConfidence(sorted, f) ==
  IF Len(sorted) = 0 THEN << f >>
  ELSE IF Head(sorted).confidence >= f.confidence
       THEN << Head(sorted) >> \o InsertByConfidence(Tail(sorted), f)
       ELSE << f >> \o sorted

RECURSIVE SortByConfidence(_)
SortByConfidence(feeds) ==
  IF Len(feeds) = 0 THEN << >>
  ELSE InsertByConfidence(SortByConfidence(SubSeq(feeds, 1, Len(feeds) - 1)),
                          feeds[Len(feeds)])

\* the slugs discoverFeedsForLocation substitutes into the domain patterns
Slugs(location) ==
  [city |-> CreateCitySlug(location.city), state |-> ToLowerCase(location.state)]

\* the three categories in turn, each pushing onto discoveredFeeds
DiscoverCategories(location, slugs, net, t) ==
  DiscoverFamily(chamberPatterns, "chamber", location, slugs, net, t,
    DiscoverFamily(schoolDistrictPatterns, "school", location, slugs, net, t,
      DiscoverFamily(governmentDomainPatterns, "city", location, slugs, net, t,
                     NoFeeds)))

\* discoveredFeeds sorted in place
Sorted(acc) == [acc EXCEPT !.feeds = SortByConfidence(@)]

\* discoverFeedsForLocation: [feeds, validated, threw]
DiscoverFeedsForLocation(location, net, t) ==
  Sorted(DiscoverCategories(location, Slugs(location), net, t))

KnownPatterns(citySlug) ==
  << "https://www." \o citySlug \o ".gov/calendar",
     "https://" \o citySlug \o ".gov/events",
     "https://www." \o citySlug \o ".gov/calendar.ics",
     "https://calendar." \o citySlug \o ".gov",
     "https://events." \o citySlug \o ".gov" >>

\* Math.min(feed.confidence + 0.3, 1.0)
KnownPatternConfidence(confidence) ==
  Min(confidence + KnownPatternBoost, MaxConfidence)

\* checkKnownPatterns: [feeds, validated]
RECURSIVE CheckKnownPatterns(_, _, _, _, _)
CheckKnownPatterns(patterns, location, net, t, n) ==
  IF Len(patterns) = 0 THEN [feeds |-> << >>, validated |-> << >>]
  ELSE LET feed == ValidateFeedUrl(Head(patterns),
                      [city |-> location.city, state |-> location.state,
                       organizationType |-> "city"],
                      HeadOf(net, Head(patterns)), t + n * net.tick)
           rest == CheckKnownPatterns(Tail(patterns), location, net, t, n + 1)
       IN  [feeds |-> [k \in 1..Len(feed) |->
                         [feed[k] EXCEPT !.confidence = KnownPatternConfidence(@)]]
                      \o rest.feeds,
            validated |-> << Head(patterns) >> \o rest.validated]

\* the filter keeping the last entry of every feed URL
DedupeKeepLast(feeds) ==
  LET keep == { k \in 1..Len(feeds) :
                  \A j \in (k + 1)..Len(feeds) :
                     feeds[j].source.feedUrl # feeds[k].source.feedUrl }
      RECURSIVE Pick(_)
      Pick(k) == IF k > Len(feeds) THEN << >>
                 ELSE (IF k \in keep THEN << feeds[k] >> ELSE << >>) \o Pick(k + 1)
  IN  Pick(1)

\* feeds.filter((feed, index, self) =>
\*   index === self.findIndex(f => f.source.feedUrl === feed.source.feedUrl))
DedupeByFeedUrl(feeds) ==
  LET keep == { k \in 1..Len(feeds) :
                  \A j \in 1..(k - 1) : feeds[j].source.feedUrl # feeds[k].source.feedUrl }
      RECURSIVE Pick(_)
      Pick(k) == IF k > Len(feeds) THEN << >>
                 ELSE (IF k \in keep THEN << feeds[k] >> ELSE << >>) \o Pick(k + 1)
  IN  Pick(1)

\* the additional feeds pushed and the filter applied: [feeds, general,
\* validated, known, combined, threw]; general is what
\* discoverFeedsForLocation returned, combined is `feeds` after the push
PopularResult(general, additional) ==
  [feeds |-> DedupeByFeedUrl(general.feeds \o additional.feeds),
   general |-> general.feeds,
   validated |-> general.validated,
   known |-> additional.validated,
   combined |-> general.feeds \o additional.feeds,
   threw |-> general.threw]

\* the known patterns checked after the general discovery
WithKnownPatterns(general, location, net, t) ==
  PopularResult(general,
                CheckKnownPatterns(KnownPatterns(CreateCitySlug(location.city)),
                                   location, net, t, Len(general.validated)))

\* the LocationInfo discoverFeedsForPopularLocation builds
PopularLocation(cityName, stateName) ==
  [city |-> cityName, state |-> GetStateAbbreviation(stateName)]

\* discoverFeedsForPopularLocation
DiscoverFeedsForPopularLocation(cityName, stateName, net, t) ==
  WithKnownPatterns(
    DiscoverFeedsForLocation(PopularLocation(cityName, stateName), net, t),
    PopularLocation(cityName, stateName), net, t)

(***************************************************************************)
(* Parsers and the fallback generator (CalendarFeedCollector).             *)
(* A response is [ok, entries]: ok = FALSE is a transport failure, a       *)
(* timeout or a malformed payload, entries the number of usable entries of *)
(* the fetched feed.  A parser returns [ok, events, fetched]: ok = FALSE   *)
(* stands for a thrown error.                                              *)
(***************************************************************************)
ParseLimit == 10
HtmlLimit == 5
FallbackCount == 3
batchSize == 5

FeedEvents(source, n) ==
  [k \in 1..n |-> [source |-> source.id, origin |-> "feed"]]

\* parseICalFeed returning parsedEvents without the slice
ParseICalFeedUnbounded(source, resp) ==
  IF source.feedUrl = Undefined
  THEN [ok |-> TRUE, events |-> << >>, fetched |-> FALSE]
  ELSE IF ~resp.ok
  THEN [ok |-> FALSE, events |-> << >>, fetched |-> TRUE]
  ELSE [ok |-> TRUE, events |-> FeedEvents(source, resp.entries), fetched |-> TRUE]

ParseICalFeed(source, resp) ==
  IF source.feedUrl = Undefined
  THEN [ok |-> TRUE, events |-> << >>, fetched |-> FALSE]
  ELSE IF ~resp.ok
  THEN [ok |-> FALSE, events |-> << >>, fetched |-> TRUE]
  ELSE [ok |-> TRUE, events |-> SubSeq(FeedEvents(source, resp.entries), 1,
                                    Min(resp.entries, ParseLimit)),
        fetched |-> TRUE]

ParseRSSFeed(source, resp) ==
  IF source.feedUrl = Undefined
  THEN [ok |-> TRUE, events |-> << >>, fetched |-> FALSE]
  ELSE IF ~resp.ok
  THEN [ok |-> FALSE, events |-> << >>, fetched |-> TRUE]
  ELSE [ok |-> TRUE, events |-> FeedEvents(source, Min(resp.entries, ParseLimit)),
        fetched |-> TRUE]

ParseJSONFeed(source, resp) ==
  IF source.feedUrl = Undefined
  THEN [ok |-> TRUE, events |-> << >>, fetched |-> FALSE]
  ELSE IF ~resp.ok
  THEN [ok |-> FALSE, events |-> << >>, fetched |-> TRUE]
  ELSE [ok |-> TRUE, events |-> FeedEvents(source, Min(resp.entries, ParseLimit)),
        fetched |-> TRUE]

\* feedUrl?.replace('webcal://', 'https://')
WebCalUrl(feedUrl) ==
  IF feedUrl = Undefined THEN Undefined
  ELSE IF StartsWith(feedUrl, "webcal://")
  THEN "https://" \o SubSeq(feedUrl, Len("webcal://") + 1, Len(feedUrl))
  ELSE feedUrl

\* parseWebCalFeed rewriting the URL of the registry's object in place
WebCalSourceInPlace(source) ==
  [source EXCEPT !.feedUrl = WebCalUrl(source.feedUrl)]

\* the source object as parseWebCalFeed leaves it: it works on a copy
WebCalSourceAfter(source) == source

ParseWebCalFeed(source, resp) ==
  ParseICalFeed([source EXCEPT !.feedUrl = WebCalUrl(source.feedUrl)], resp)

ScrapeHTMLEvents(source, resp) ==
  IF source.websiteUrl = Undefined
  THEN [ok |-> TRUE, events |-> << >>, fetched |-> FALSE]
  ELSE IF ~resp.ok
  THEN [ok |-> FALSE, events |-> << >>, fetched |-> TRUE]
  ELSE [ok |-> TRUE, events |-> FeedEvents(source, Min(resp.entries, HtmlLimit)),
        fetched |-> TRUE]

GenerateFallbackEvents(source) ==
  [k \in 1..FallbackCount |-> [source |-> source.id, origin |-> "fallback"]]

HourMs == 60 * 60 * 1000
DayMs == 24 * HourMs

\* eventTemplates: title and duration in hours
eventTemplates ==
  << [title |-> "City Council Meeting", duration |-> 2],
     [title |-> "Public Library Story Time", duration |-> 1],
     [title |-> "Business Networking Event", duration |-> 2],
     [title |-> "Community Health Fair", duration |-> 4],
     [title |-> "Local Art Exhibition Opening", duration |-> 3] >>

\* the start computed as now + i days + the random part
FallbackStartFromToday(t, idx, offset) == t + idx * DayMs + offset

\* startDate of the event of loop index idx (0, 1, 2): t is now.getTime(),
\* offset the whole milliseconds of Math.random() * 12 h, which new Date keeps
FallbackStart(t, idx, offset) == t + (idx + 1) * DayMs + offset

\* generateFallbackEvents with the dates of its events: random holds the
\* offsets drawn for the three start dates
FallbackEventsAt(source, t, random) ==
  LET tagged == GenerateFallbackEvents(source)
  IN  [k \in 1..Len(tagged) |->
         LET template == eventTemplates[((k - 1) % Len(eventTemplates)) + 1]
             startDate == FallbackStart(t, k - 1, random[k])
         IN  [source |-> tagged[k].source,
              title |-> (template.title \o " - ") \o source.city,
              startDate |-> startDate,
              endDate |-> startDate + template.duration * HourMs]]

ParseByType(source, resp) ==
  CASE source.feedType = "ical"   -> ParseICalFeed(source, resp)
    [] source.feedType = "rss"    -> ParseRSSFeed(source, resp)
    [] source.feedType = "json"   -> ParseJSONFeed(source, resp)
    [] source.feedType = "webcal" -> ParseWebCalFeed(source, resp)
    [] source.feedType = "html"   -> ScrapeHTMLEvents(source, resp)
    [] OTHER                      -> ParseICalFeed(source, resp)

\* collectFromSource without its catch: the parser's error rejects the promise
CollectFromSourceRethrow(source, resp) ==
  LET r == ParseByType(source, resp)
  IN  IF r.ok
      THEN [status |-> "fulfilled", value |-> r.events, real |-> TRUE,
            fetched |-> r.fetched]
      ELSE [status |-> "rejected", value |-> << >>, real |-> FALSE,
            fetched |-> r.fetched]

\* collectFromSource: the settled promise of one task.  `real` records
\* whether the value came from the feed, `fetched` whether a request was sent.
CollectFromSource(source, resp) ==
  LET r == ParseByType(source, resp)
  IN  IF r.ok
      THEN [status |-> "fulfilled", value |-> r.events, real |-> TRUE,
            fetched |-> r.fetched]
      ELSE [status |-> "fulfilled", value |-> GenerateFallbackEvents(source),
            real |-> FALSE, fetched |-> r.fetched]

(***************************************************************************)
(* Registry operations (CalendarFeedCollector).                            *)
(***************************************************************************)
\* sources.findIndex(s => s.id === sourceId), 1-based; 0 when absent
FindIndex(hp, srcs, sourceId) ==
  LET hits == { k \in 1..Len(srcs) : hp[srcs[k]].id = sourceId }
  IN  IF hits = {} THEN 0 ELSE CHOOSE k \in hits : \A m \in hits : k <= m

\* addSource comparing ids only
SourceExistsByIdOnly(hp, srcs, source) ==
  \E k \in 1..Len(srcs) : hp[srcs[k]].id = source.id

\* addSource comparing feed URLs only
SourceExistsByUrlOnly(hp, srcs, source) ==
  \E k \in 1..Len(srcs) : hp[srcs[k]].feedUrl = source.feedUrl

\* the condition of addSource's find
SourceExists(hp, srcs, source) ==
  \E k \in 1..Len(srcs) :
     hp[srcs[k]].feedUrl = source.feedUrl \/ hp[srcs[k]].id = source.id

\* what toggleSource returns when no source has the id
ToggleNotFound == FALSE

\* sources.splice(index): everything from the index on is removed
RemoveFrom(s, k) == SubSeq(s, 1, k - 1)

\* sources.splice(index, 1)
RemoveAt(s, k) == SubSeq(s, 1, k - 1) \o SubSeq(s, k + 1, Len(s))

CallRecord(op, id, feedUrl, value) ==
  [op |-> op, arg |-> [id |-> id, feedUrl |-> feedUrl], value |-> value]

(***************************************************************************)
(* Inputs of the calls.                                                    *)
(***************************************************************************)
DiscoveryTime == NoSync + 1

\* no discovery call is in progress
NoProbe ==
  [op |-> "none", city |-> "", state |-> "",
   net |-> [status |-> << >>, links |-> << >>, headFail |-> {},
            contentType |-> "", tick |-> 0],
   general |-> << >>, validated |-> << >>, known |-> << >>,
   combined |-> << >>]

\* no generateFallbackEvents call has returned
NoFallback ==
  [called |-> FALSE, sourceId |-> "", at |-> 0, random |-> << >>, events |-> << >>]

\* no syncEventsToStorage call is in progress
NoSyncCall ==
  [pc |-> "idle", collectedEvents |-> << >>, attempts |-> << >>,
   savedCount |-> 0, stored |-> << >>, value |-> 0]

\* no place has been given to the domain generator
NoDomains == [called |-> FALSE, city |-> "", state |-> "", candidates |-> << >>]

\* no parser has been given an entry
NoParse ==
  [called |-> FALSE, feedType |-> "", at |-> 0,
   entry |-> [title |-> "", description |-> "", start |-> 0, date |-> 0, end |-> 0],
   events |-> << >>]

SpringfieldCity ==
  [city |-> "Springfield", state |-> "IL", organizationType |-> "city"]

\* a source exactly as discovery produces it
DiscoveredSource ==
  ValidateFeedUrl("https://www.springfield.gov/calendar", SpringfieldCity,
                  [ok |-> TRUE, contentType |-> "text/html"],
                  DiscoveryTime)[1].source

MissingId == "no-such-source"

AddInputs ==
  { DiscoveredSource,
    \* a new id with the feed URL of a registered source
    [DiscoveredSource EXCEPT !.feedUrl = SeedSources[1].feedUrl,
                             !.id = "san-francisco-copy"],
    \* an active JSON source: a new feed URL with the id of a registered source
    [DiscoveredSource EXCEPT !.id = SeedSources[1].id,
                             !.feedUrl = "https://example.org/events.json",
                             !.feedType = "json", !.isActive = TRUE],
    \* an active webcal source
    [DiscoveredSource EXCEPT !.id = "custom-webcal",
                             !.feedUrl = "webcal://example.org/cal.ics",
                             !.feedType = "webcal", !.isActive = TRUE] }

TargetIds == { SeedSources[1].id, DiscoveredSource.id, MissingId }

Responses ==
  { [ok |-> FALSE, entries |-> 0], [ok |-> TRUE, entries |-> MaxEntries] }

(***************************************************************************)
(* Initial state.                                                          *)
(***************************************************************************)
Init ==
  /\ heap = InitialSources
  /\ sources = [k \in 1..Len(InitialSources) |-> k]
  /\ now = DiscoveryTime
  /\ pc = "idle"
  /\ activeSources = << >>
  /\ i = 0
  /\ tasks = << >>
  /\ allEvents = << >>
  /\ ret = CallRecord("none", "", "", FALSE)
  /\ calls = 0
  /\ settled = << >>
  /\ startActive = {}
  /\ toggled = {}
  /\ dpc = "idle"
  /\ discovered = << >>
  /\ probe = NoProbe
  /\ fallback = NoFallback
  /\ sync = NoSyncCall
  /\ domains = NoDomains
  /\ parsed = NoParse

discoveryVars == << dpc, discovered, probe >>

fallbackVars == << fallback >>

storeVars == << sync >>

generatorVars == << domains >>

parserVars == << parsed >>

\* the variables of the calls checked apart from the registry and discovery
functionVars == << fallbackVars, generatorVars, parserVars, storeVars >>

collectorVars == << heap, sources, now, pc, activeSources, i, tasks, allEvents,
                   ret, calls, settled, startActive, toggled >>

runVars == << now, pc, activeSources, i, tasks, allEvents, settled, startActive >>

ToggleSource(sourceId) ==
  /\ calls < MaxCalls
  /\ LET k == FindIndex(heap, sources, sourceId)
     IN  IF k # 0
         THEN /\ heap' = [heap EXCEPT ![sources[k]].isActive = ~@]
              /\ ret' = CallRecord("toggleSource", sourceId, Undefined,
                                   ~heap[sources[k]].isActive)
              /\ toggled' = toggled \cup {sourceId}
         ELSE /\ heap' = heap
              /\ ret' = CallRecord("toggleSource", sourceId, Undefined, ToggleNotFound)
              /\ toggled' = toggled
  /\ calls' = calls + 1
  /\ UNCHANGED << sources, runVars >>
  /\ UNCHANGED << discoveryVars, functionVars >>

AddSource(source) ==
  /\ calls < MaxCalls
  /\ IF SourceExists(heap, sources, source)
     THEN /\ ret' = CallRecord("addSource", source.id, source.feedUrl, FALSE)
          /\ UNCHANGED << heap, sources >>
     ELSE /\ heap' = Append(heap, source)
          /\ sources' = Append(sources, Len(heap) + 1)
          /\ ret' = CallRecord("addSource", source.id, source.feedUrl, TRUE)
  /\ calls' = calls + 1
  /\ UNCHANGED << toggled, runVars >>
  /\ UNCHANGED << discoveryVars, functionVars >>

RemoveSource(sourceId) ==
  /\ calls < MaxCalls
  /\ LET k == FindIndex(heap, sources, sourceId)
     IN  IF k # 0
         THEN /\ sources' = RemoveAt(sources, k)
              /\ ret' = CallRecord("removeSource", sourceId, Undefined, TRUE)
         ELSE /\ sources' = sources
              /\ ret' = CallRecord("removeSource", sourceId, Undefined, FALSE)
  /\ calls' = calls + 1
  /\ UNCHANGED << heap, toggled, runVars >>
  /\ UNCHANGED << discoveryVars, functionVars >>

(***************************************************************************)
(* The collection run (collectFromAllSources).  One run at a time; the     *)
(* clock advances when a run starts and while it sleeps between batches.   *)
(***************************************************************************)
\* the filter left out: every registered source is collected
ActiveSourcesUnfiltered(hp, srcs) == srcs

\* this.sources.filter(s => s.isActive)
ActiveSources(hp, srcs) == SelectSeq(srcs, LAMBDA r : hp[r].isActive)

\* activeSources.slice(0, batchSize): every batch is the first one again
BatchFromStart(active, from) == SubSeq(active, 1, Min(batchSize, Len(active)))

\* this.sources.filter(s => s.isActive).slice(i, i + batchSize): the
\* registry filtered again for every batch
BatchOfRegistry(active, from) ==
  SubSeq(ActiveSources(heap, sources), from + 1,
         Min(from + batchSize, Len(ActiveSources(heap, sources))))

\* activeSources.slice(i, i + batchSize), i counted from 0
Batch(active, from) == SubSeq(active, from + 1, Min(from + batchSize, Len(active)))

\* batch.map(source => this.collectFromSource(source)): one pending promise
\* per source of the batch
Dispatch(batch) ==
  [k \in 1..Len(batch) |->
     [src |-> batch[k], status |-> "pending", value |-> << >>,
      real |-> FALSE, fetched |-> FALSE, resp |-> [ok |-> FALSE, entries |-> 0]]]

\* the heap after the synchronous part of the batch's tasks
DispatchHeap(hp, batch) ==
  [r \in 1..Len(hp) |->
     IF r \in Range(batch) /\ hp[r].feedType = "webcal"
     THEN WebCalSourceAfter(hp[r]) ELSE hp[r]]

\* the await resolving with the first settled promise (Promise.race)
AnySettled(ts) == \E k \in 1..Len(ts) : ts[k].status # "pending"

\* Promise.allSettled(batchPromises) has resolved
AllSettled(ts) == \A k \in 1..Len(ts) : ts[k].status # "pending"

RECURSIVE Flatten(_)
Flatten(ss) == IF Len(ss) = 0 THEN << >> ELSE Head(ss) \o Flatten(Tail(ss))

\* Promise.all semantics: one failed task loses the whole batch
BatchEventsAllOrNothing(ts) ==
  IF \E k \in 1..Len(ts) : ~ts[k].real THEN << >>
  ELSE Flatten([k \in 1..Len(ts) |-> ts[k].value])

\* the events batchResults.forEach pushes, in index order
BatchEvents(ts) ==
  Flatten([k \in 1..Len(ts) |->
             IF ts[k].status = "fulfilled" THEN ts[k].value ELSE << >>])

\* the sources batchResults.forEach stamps with lastSync
SyncedSources(ts) ==
  { ts[k].src : k \in { m \in 1..Len(ts) : ts[m].status = "fulfilled" } }

\* the events put in front of the ones collected so far
UnshiftAll(all, evs) == evs \o all

\* allEvents.push(...) of the batch's events
PushAll(all, evs) == all \o evs

\* the condition with <= in place of <
HasNextBatchInclusive(from, n) == from + batchSize <= n

\* i + batchSize < activeSources.length: another batch follows
HasNextBatch(from, n) == from + batchSize < n

\* history record of a joined task
Joined(hp, t, at, from) ==
  [src |-> t.src, status |-> t.status, real |-> t.real, fetched |-> t.fetched,
   resp |-> t.resp, prevSync |-> hp[t.src].lastSync, at |-> at, batch |-> from]

CollectStart ==
  /\ pc \in {"idle", "done"}
  /\ calls < MaxCalls
  /\ calls' = calls + 1
  /\ now' = now + 1
  /\ allEvents' = << >>
  /\ settled' = << >>
  /\ startActive' = { r \in Range(sources) : heap[r].isActive }
  /\ i' = 0
  /\ LET active == ActiveSources(heap, sources)
     IN  /\ activeSources' = active
         /\ IF Len(active) = 0
            THEN /\ pc' = "done"
                 /\ tasks' = << >>
                 /\ heap' = heap
            ELSE /\ pc' = "await"
                 /\ tasks' = Dispatch(Batch(active, 0))
                 /\ heap' = DispatchHeap(heap, Batch(active, 0))
  /\ UNCHANGED << sources, ret, toggled >>
  /\ UNCHANGED << discoveryVars, functionVars >>

TaskSettle(k) ==
  /\ pc = "await"
  /\ k \in 1..Len(tasks)
  /\ tasks[k].status = "pending"
  /\ \E resp \in Responses :
       LET p == CollectFromSource(heap[tasks[k].src], resp)
       IN  tasks' = [tasks EXCEPT ![k] =
                       [src |-> tasks[k].src, status |-> p.status,
                        value |-> p.value, real |-> p.real,
                        fetched |-> p.fetched, resp |-> resp]]
  /\ UNCHANGED << heap, sources, now, pc, activeSources, i, allEvents,
                  ret, calls, settled, startActive, toggled >>
  /\ UNCHANGED << discoveryVars, functionVars >>

BatchJoin ==
  /\ pc = "await"
  /\ AllSettled(tasks)
  /\ allEvents' = PushAll(allEvents, BatchEvents(tasks))
  /\ heap' = [r \in 1..Len(heap) |->
                IF r \in SyncedSources(tasks)
                THEN [heap[r] EXCEPT !.lastSync = now] ELSE heap[r]]
  /\ settled' = settled \o [k \in 1..Len(tasks) |-> Joined(heap, tasks[k], now, i)]
  /\ IF HasNextBatch(i, Len(activeSources))
     THEN /\ pc' = "delay"
          /\ i' = i
     ELSE /\ pc' = "done"
          /\ i' = i + batchSize
  /\ UNCHANGED << sources, now, activeSources, tasks, ret, calls,
                  startActive, toggled >>
  /\ UNCHANGED << discoveryVars, functionVars >>

DelayElapsed ==
  /\ pc = "delay"
  /\ i' = i + batchSize
  /\ now' = now + 1
  /\ tasks' = Dispatch(Batch(activeSources, i + batchSize))
  /\ heap' = DispatchHeap(heap, Batch(activeSources, i + batchSize))
  /\ pc' = "await"
  /\ UNCHANGED << sources, activeSources, allEvents, ret, calls, settled,
                  startActive, toggled >>
  /\ UNCHANGED << discoveryVars, functionVars >>

Next ==
  \/ \E id \in TargetIds : ToggleSource(id)
  \/ \E source \in AddInputs : AddSource(source)
  \/ \E id \in TargetIds : RemoveSource(id)
  \/ CollectStart
  \/ \E k \in 1..batchSize : TaskSettle(k)
  \/ BatchJoin
  \/ DelayElapsed

Spec == Init /\ [][Next]_vars

(***************************************************************************)
(* Properties of the collection run and the registry.                      *)
(***************************************************************************)
EventsOf(evs, id) == SelectSeq(evs, LAMBDA e : e.source = id)

IdOf(r) == heap[r].id

Failed(t) == t.fetched /\ ~t.resp.ok

\* C1: in every batch, whatever sources of it fail, each source whose own
\* fetch and parse succeeded contributes exactly the events its own parser
\* produced: a failing source neither cancels nor replaces another's result.
C1_FailureIsolated ==
  \A k \in 1..Len(settled) :
     settled[k].resp.ok =>
        EventsOf(allEvents, IdOf(settled[k].src))
          = ParseByType(heap[settled[k].src], settled[k].resp).events

\* a joined batch with a failed task next to a task that delivered its feed
C1_Witness ==
  \E j, k \in 1..Len(settled) :
     /\ settled[j].batch = settled[k].batch
     /\ Failed(settled[j])
     /\ settled[k].resp.ok /\ settled[k].fetched
     /\ Len(EventsOf(allEvents, IdOf(settled[k].src))) = ParseLimit
     /\ \A e \in Range(EventsOf(allEvents, IdOf(settled[k].src))) : e.origin = "feed"

\* C2: every source whose fetch or parse failed in the run has exactly the
\* 3 fallback events in the run's output, and a finished run of N >= 1
\* sources whose fetches all failed returns 3 * N events.
C2_FallbackOnFailure ==
  /\ \A k \in 1..Len(settled) :
        Failed(settled[k]) =>
           LET evs == EventsOf(allEvents, IdOf(settled[k].src))
           IN  /\ Len(evs) = 3
               /\ \A e \in Range(evs) : e.origin = "fallback"
  /\ ( /\ pc = "done"
       /\ Len(activeSources) >= 1
       /\ Len(settled) = Len(activeSources)
       /\ \A k \in 1..Len(settled) : Failed(settled[k]) )
     => Len(allEvents) = 3 * Len(activeSources)

\* a finished run over two batches in which every fetch failed
C2_Witness ==
  /\ pc = "done"
  /\ Len(activeSources) > 5
  /\ Len(settled) = Len(activeSources)
  /\ \A k \in 1..Len(settled) : Failed(settled[k])
  /\ Len(allEvents) = 3 * Len(activeSources)

\* C3: no two sources of the registry share a feed URL, and no two share
\* an id, after any sequence of addSource, removeSource and toggleSource.
C3_RegistryUnique ==
  /\ \A j, k \in 1..Len(SeedSources) :
        j # k => /\ SeedSources[j].feedUrl # SeedSources[k].feedUrl
                 /\ SeedSources[j].id # SeedSources[k].id
  /\ \A j, k \in 1..Len(sources) :
        j # k => /\ sources[j] # sources[k]
                 /\ heap[sources[j]].feedUrl # heap[sources[k]].feedUrl
                 /\ heap[sources[j]].id # heap[sources[k]].id

\* the registry has grown by an accepted source and has then rejected an add
C3_Witness ==
  /\ Len(sources) > Len(InitialSources)
  /\ ret.op = "addSource"
  /\ ret.value = FALSE

\* a step of the collection run (a registry call leaves these unchanged)
RunStep ==
  << now, pc, activeSources, i, tasks, allEvents, settled >>'
     # << now, pc, activeSources, i, tasks, allEvents, settled >>

\* a step that is a call of the registry
RegistryCall == calls' = calls + 1 /\ ~RunStep

DuplicateOf(arg, hp, srcs) ==
  \E k \in 1..Len(srcs) : hp[srcs[k]].feedUrl = arg.feedUrl \/ hp[srcs[k]].id = arg.id

\* C4: an addSource call whose source has the feed URL or the id of a
\* registered source returns false and leaves the registry and every
\* source in it unchanged.
C4_DuplicateAddRejected ==
  [][ ( /\ RegistryCall
        /\ ret'.op = "addSource"
        /\ DuplicateOf(ret'.arg, heap, sources) )
      => ( /\ ret'.value = FALSE
           /\ sources' = sources
           /\ heap' = heap ) ]_vars

\* an add with only the feed URL of a registered source, and one with only
\* its id, was rejected and the registry still holds its initial sources
C4_Witness ==
  /\ ret.op = "addSource"
  /\ ret.value = FALSE
  /\ \/ ret.arg.feedUrl = SeedSources[1].feedUrl /\ ret.arg.id # SeedSources[1].id
     \/ ret.arg.feedUrl # SeedSources[1].feedUrl /\ ret.arg.id = SeedSources[1].id
  /\ Len(sources) = Len(InitialSources)
  /\ heap = InitialSources

\* C5: a joined source has its last-sync set to the time of the join if and
\* only if its real fetch and parse succeeded; a source served by the
\* fallback generator keeps its previous last-sync value.
C5_LastSyncOnlyOnSuccess ==
  \A k \in 1..Len(settled) :
     IF settled[k].real
     THEN heap[settled[k].src].lastSync = settled[k].at
     ELSE heap[settled[k].src].lastSync = settled[k].prevSync

\* C6: a source produced by discovery is inactive; a run dispatches a task
\* only for a source that was active when the run started; hence a
\* discovered source is collected only after toggleSource flipped its id.
C6_DiscoveredNotFetchedUntilToggled ==
  /\ ~DiscoveredSource.isActive
  /\ \A k \in 1..Len(tasks) :
        /\ tasks[k].src \in startActive
        /\ StartsWith(IdOf(tasks[k].src), "discovered-") => IdOf(tasks[k].src) \in toggled
  /\ \A k \in 1..Len(settled) :
        /\ settled[k].src \in startActive
        /\ StartsWith(IdOf(settled[k].src), "discovered-") => IdOf(settled[k].src) \in toggled

\* a run is under way while the registry holds a discovered source that
\* was added as produced and never toggled: the run has no task for it
C6_Witness ==
  /\ pc = "await"
  /\ \E k \in 1..Len(sources) :
        /\ heap[sources[k]] = DiscoveredSource
        /\ DiscoveredSource.id \notin toggled
        /\ sources[k] \notin Range(activeSources)
  /\ \E k \in 1..Len(tasks) : tasks[k].fetched

\* C7: the tasks in flight are the next at most 5 consecutive active
\* sources, only the last batch is shorter, and a batch is dispatched only
\* after every task of the batches before it has settled.
C7_BatchesOfFive ==
  /\ Len(tasks) <= 5
  /\ Cardinality({ k \in 1..Len(tasks) : tasks[k].status = "pending" }) <= 5
  /\ pc = "await" =>
       /\ Len(tasks) >= 1
       /\ Len(tasks) < 5 => i + Len(tasks) = Len(activeSources)
       /\ [k \in 1..Len(tasks) |-> tasks[k].src]
            = SubSeq(activeSources, i + 1, i + Len(tasks))
       /\ [k \in 1..Len(settled) |-> settled[k].src] = SubSeq(activeSources, 1, i)
  /\ pc \in {"delay", "done"} => \A k \in 1..Len(tasks) : tasks[k].status # "pending"
  /\ \A k \in 1..Len(settled) : settled[k].status # "pending"

\* the second batch is in flight after the 5 tasks of the first have settled
C7_Witness ==
  /\ pc = "await"
  /\ i = 5
  /\ Len(settled) = 5
  /\ \E k \in 1..Len(tasks) : tasks[k].status = "pending"

\* C8: a step of the collection run leaves the registry's entries and the
\* id, feed URL and active flag of every source as they are; it writes at
\* most the last-sync of sources the run collected.
C8_RunWritesOnlyLastSync ==
  [][ RunStep =>
        /\ sources' = sources
        /\ Len(heap') = Len(heap)
        /\ \A r \in 1..Len(heap) :
              /\ [heap'[r] EXCEPT !.lastSync = heap[r].lastSync] = heap[r]
              /\ heap'[r].lastSync # heap[r].lastSync
                   => r \in { tasks[k].src : k \in 1..Len(tasks) } ]_vars

\* a finished run has stamped a webcal source whose feed URL is as added
C8_Witness ==
  /\ pc = "done"
  /\ \E k \in 1..Len(settled) :
        /\ heap[settled[k].src].feedType = "webcal"
        /\ heap[settled[k].src].feedUrl = "webcal://example.org/cal.ics"
        /\ heap[settled[k].src].lastSync # NoSync
        /\ settled[k].src \in Range(sources)

\* C9: toggleSource of a registered id returns the flag's new value; for an
\* id not in the registry it returns a not-found signal that is not one of
\* the values a new state can take.
C9_ToggleNotFoundDistinct ==
  ret.op = "toggleSource" =>
     LET k == FindIndex(heap, sources, ret.arg.id)
     IN  IF k # 0
         THEN ret.value = heap[sources[k]].isActive
         ELSE ret.value \notin BOOLEAN

(***************************************************************************)
(* Discovery calls.  A call reads the clock from `now` on; its result is   *)
(* handed to the caller when it returns.                                   *)
(***************************************************************************)
LocationInputs ==
  { [city |-> "Springfield", state |-> "IL"],
    [city |-> "St. Paul", state |-> "mn"] }

PopularInputs ==
  { [cityName |-> "Springfield", stateName |-> " Illinois "],
    [cityName |-> "New York", stateName |-> "NY State"] }

\* root statuses: 0 stands for no response (DNS or connection failure,
\* timeout)
RootStatuses == { 0, 200, 403, 404, 503 }

\* the candidate domains that may answer; every other domain does not
AnsweringDomains(city) ==
  { "www." \o CreateCitySlug(city) \o ".gov", CreateCitySlug(city) \o "schools.org" }

ManyLinks == [k \in 1..MaxLinks |-> "/events/page-" \o ToString(k)]

HomepageLinks ==
  { << >>,
    << "/events/calendar.ics", "https://calendar.example.com/view",
       "feeds/events.xml", "/calendar", "/open.gov/calendar-archive" >>,
    << "/calendar", "http://city events.example.com/list" >>,
    ManyLinks }

HeadFailures == { {}, { ".ics", "/events" }, { "" } }

ContentTypes ==
  { "text/calendar; charset=utf-8", "application/json", "text/html" }

\* the government domain answers with any root status, the school domain
\* answers 200 or not at all
RootStatusMaps(city) ==
  { [d \in AnsweringDomains(city) |-> IF EndsWith(d, ".gov") THEN g ELSE o] :
      g \in RootStatuses, o \in {0, 200} }

Networks(city) ==
  { [status |-> st, links |-> ln, headFail |-> hf, contentType |-> ct, tick |-> tk] :
      st \in RootStatusMaps(city),
      ln \in HomepageLinks, hf \in HeadFailures, ct \in ContentTypes,
      tk \in {0, 1} }

\* the call returns r (or fails): what the caller and the history keep
DiscoveryDone(op, city, state, net, r, general, known, combined) ==
  /\ discovered' = r.feeds
  /\ probe' = [op |-> op, city |-> city, state |-> state, net |-> net,
               general |-> general, validated |-> r.validated,
               known |-> known, combined |-> combined]
  /\ dpc' = IF r.threw THEN "failed" ELSE "returned"

LocationDone(location, net, r) ==
  DiscoveryDone("location", location.city, location.state, net, r,
                r.feeds, << >>, r.feeds)

PopularDone(location, net, r) ==
  DiscoveryDone("popular", location.city, location.state, net, r,
                r.general, r.known, r.combined)

DiscoverLocation ==
  /\ dpc = "idle"
  /\ \E location \in LocationInputs :
       \E net \in Networks(location.city) :
          LocationDone(location, net, DiscoverFeedsForLocation(location, net, now))
  /\ UNCHANGED << collectorVars, functionVars >>

DiscoverPopular ==
  /\ dpc = "idle"
  /\ \E input \in PopularInputs :
       \E net \in Networks(input.cityName) :
          PopularDone(PopularLocation(input.cityName, input.stateName), net,
                      DiscoverFeedsForPopularLocation(input.cityName,
                                                      input.stateName, net, now))
  /\ UNCHANGED << collectorVars, functionVars >>

\* the route answers (with the feeds, or with status 500 after an error)
DiscoveryReturn ==
  /\ dpc \in {"returned", "failed"}
  /\ dpc' = "idle"
  /\ discovered' = << >>
  /\ probe' = NoProbe
  /\ UNCHANGED << collectorVars, functionVars >>

NextDiscovery ==
  \/ DiscoverLocation
  \/ DiscoverPopular
  \/ DiscoveryReturn

SpecDiscovery == Init /\ [][NextDiscovery]_vars

\* C10: every feed a discovery call returns has a confidence between 0 and
\* 1 (0 and 10 tenths), whatever its base confidence and boosts.
C10_ConfidenceInUnitRange ==
  \A k \in 1..Len(discovered) :
     discovered[k].confidence >= 0 /\ discovered[k].confidence <= 10

\* a result holding a government calendar feed (0.9 + 0.2, clamped) next
\* to a feed of the lowest base confidence without boost
C10_Witness ==
  /\ \E k \in 1..Len(discovered) :
        /\ discovered[k].source.feedType = "ical"
        /\ Includes(discovered[k].source.feedUrl, ".gov")
        /\ discovered[k].confidence = 10
  /\ \E k \in 1..Len(discovered) : discovered[k].confidence = 3

(***************************************************************************)
(* Properties of discovery.                                                *)
(***************************************************************************)
\* the least index of `feeds` holding the feed URL u
FirstIndexOf(feeds, u) ==
  CHOOSE m \in 1..Len(feeds) :
     /\ feeds[m].source.feedUrl = u
     /\ \A j \in 1..(m - 1) : feeds[j].source.feedUrl # u

\* C11: the result of discoverFeedsForPopularLocation holds no two entries
\* with the same feed URL, and for every feed URL of the combined sequence
\* (general discovery, then the known-pattern feeds) it holds exactly the
\* entry that comes first in that sequence.
C11_PopularDeduplicated ==
  (dpc = "returned" /\ probe.op = "popular") =>
     /\ \A j, k \in 1..Len(discovered) :
           j # k => discovered[j].source.feedUrl # discovered[k].source.feedUrl
     /\ \A k \in 1..Len(discovered) :
           /\ \E m \in 1..Len(probe.combined) :
                 probe.combined[m].source.feedUrl = discovered[k].source.feedUrl
           /\ discovered[k] =
                probe.combined[FirstIndexOf(probe.combined,
                                            discovered[k].source.feedUrl)]
     /\ \A m \in 1..Len(probe.combined) :
           \E k \in 1..Len(discovered) :
              discovered[k].source.feedUrl = probe.combined[m].source.feedUrl

\* a known-pattern URL that general discovery had validated too: the two
\* entries differ in confidence and the result holds the earlier one
C11_Witness ==
  /\ dpc = "returned"
  /\ probe.op = "popular"
  /\ \E m, n \in 1..Len(probe.combined) :
        /\ m < n
        /\ probe.combined[m].source.feedUrl = probe.combined[n].source.feedUrl
        /\ probe.combined[m].confidence < probe.combined[n].confidence
        /\ \E k \in 1..Len(discovered) : discovered[k] = probe.combined[m]

\* C12: the sequence discoverFeedsForLocation returns is ordered by
\* non-increasing confidence: every entry's confidence is at least that of
\* the entry after it, across categories and domains.
C12_SortedByConfidence ==
  (dpc = "returned" /\ probe.op = "location") =>
     \A k \in 1..(Len(discovered) - 1) :
        discovered[k].confidence >= discovered[k + 1].confidence

\* a result in which a school feed, found after the government feeds,
\* stands before a government feed of lower confidence
C12_Witness ==
  /\ dpc = "returned"
  /\ probe.op = "location"
  /\ \E j, k \in 1..Len(discovered) :
        /\ j < k
        /\ discovered[j].source.type = "school"
        /\ discovered[k].source.type = "city"
        /\ discovered[j].confidence > discovered[k].confidence

\* the candidate domains of a discovery call for (city, state)
CandidateDomains(city, state) ==
  LET patterns == governmentDomainPatterns \o schoolDistrictPatterns \o chamberPatterns
      citySlug == CreateCitySlug(city)
      stateSlug == ToLowerCase(state)
  IN  { DomainOf(patterns[k], citySlug, stateSlug) : k \in 1..Len(patterns) }

\* the origins of the URLs of a sequence of URLs / of feeds
OriginsOf(urls) == { UrlOrigin(urls[k]) : k \in 1..Len(urls) }

FeedUrls(feeds) == { feeds[k].source.feedUrl : k \in 1..Len(feeds) }

FeedOrigins(feeds) == { UrlOrigin(feeds[k].source.feedUrl) : k \in 1..Len(feeds) }

\* the URLs checkDomainForFeeds is to validate on a domain it takes as existing
PathUrls(domain, links) ==
  LET paths == PathsToCheck(links)
  IN  { ("https://" \o domain) \o paths[k] : k \in 1..Len(paths) }

C15_FailuresIsolated ==
  (dpc # "idle") =>
     /\ dpc = "returned"
     /\ \A d \in CandidateDomains(probe.city, probe.state) :
           LET status == RootStatus(probe.net, d)
           IN  (status > 0 /\ status < 500 /\ status # 404
                  /\ HomepageScans(probe.net.links)) =>
                 PathUrls(d, probe.net.links) \subseteq Range(probe.validated)
     /\ FeedUrls(probe.general) =
          { u \in Range(probe.validated) : HeadOf(probe.net, u).ok }
     /\ probe.op = "popular" =>
          /\ probe.known = KnownPatterns(CreateCitySlug(probe.city))
          /\ FeedUrls(discovered) =
               { u \in Range(probe.validated) \cup Range(probe.known) :
                    HeadOf(probe.net, u).ok }

\* a HEAD request fails on a domain, a later path of the same domain still
\* yields a feed, and so does a domain probed after it, with domains that
\* do not answer probed before
C15_Witness ==
  /\ dpc = "returned"
  /\ \E j, k \in 1..Len(probe.validated) :
        /\ j < k
        /\ ~HeadOf(probe.net, probe.validated[j]).ok
        /\ UrlOrigin(probe.validated[j]) = UrlOrigin(probe.validated[k])
        /\ probe.validated[k] \in FeedUrls(probe.general)
        /\ \E m \in (k + 1)..Len(probe.validated) :
              /\ UrlOrigin(probe.validated[m]) # UrlOrigin(probe.validated[k])
              /\ probe.validated[m] \in FeedUrls(probe.general)

\* C20: the ids of the sources one discovery call returns are pairwise
\* distinct, also for feeds of the same place and category validated in
\* immediate succession.
C20_DiscoveredIdsDistinct ==
  (dpc = "returned") =>
     \A j, k \in 1..Len(discovered) :
        j # k => discovered[j].source.id # discovered[k].source.id

(***************************************************************************)
(* Further properties of the collection run.                               *)
(***************************************************************************)
\* C16: whatever the feed type of a source (ical, rss, json, webcal, html)
\* and whether its events are parsed or come from the fallback, the run's
\* output holds at most 10 events tagged with it, however many entries the
\* fetched feed has.
C16_AtMostTenEventsPerSource ==
  \A r \in 1..Len(heap) : Len(EventsOf(allEvents, IdOf(r))) <= 10

\* a finished run in which a feed of more than 10 entries gave exactly 10
\* events and a failed source gave the fallback's events
C16_Witness ==
  /\ pc = "done"
  /\ \E k \in 1..Len(settled) :
        /\ settled[k].resp.ok
        /\ settled[k].resp.entries > 10
        /\ Len(EventsOf(allEvents, IdOf(settled[k].src))) = 10
  /\ \E k \in 1..Len(settled) :
        /\ Failed(settled[k])
        /\ Len(EventsOf(allEvents, IdOf(settled[k].src))) = 3

\* the batch (its first index in activeSources) of the run's source with an id
BatchOfSource(id) ==
  settled[CHOOSE k \in 1..Len(settled) : IdOf(settled[k].src) = id].batch

\* C18: in the run's output every event of a source of an earlier batch
\* stands before every event of a source of a later batch, whatever order
\* the tasks of a batch settle in.
C18_BatchSequential ==
  /\ \A p \in 1..Len(allEvents) :
        \E k \in 1..Len(settled) : IdOf(settled[k].src) = allEvents[p].source
  /\ \A p \in 1..(Len(allEvents) - 1) :
        BatchOfSource(allEvents[p].source) <= BatchOfSource(allEvents[p + 1].source)

\* a finished run of two batches with events of both in its output
C18_Witness ==
  /\ pc = "done"
  /\ \E p, q \in 1..Len(allEvents) :
        /\ BatchOfSource(allEvents[p].source) = 0
        /\ BatchOfSource(allEvents[q].source) = 5
        /\ p < q

\* C19: when a batch has been joined the run sleeps exactly if sources
\* remain to be collected, always with every task of the batch settled; a
\* batch other than the first is dispatched only out of that sleep, and
\* the first one without it; so a run of at most 5 sources never sleeps and
\* no run sleeps after its last batch.
C19_PacingBetweenBatches ==
  [][ /\ (pc = "await" /\ pc' # "await") =>
            /\ AllSettled(tasks)
            /\ pc' \in {"delay", "done"}
            /\ (pc' = "delay") <=> (Len(settled') < Len(activeSources))
      /\ (pc # "await" /\ pc' = "await") =>
            \/ pc \in {"idle", "done"} /\ Len(settled') = 0
            \/ pc = "delay" /\ Len(settled') > 0
      /\ pc' = "delay" => Len(activeSources') > 5 ]_vars

\* the run sleeps after its first batch of 5, with a sixth source to come
C19_Witness ==
  /\ pc = "delay"
  /\ Len(settled) = 5
  /\ Len(activeSources) > 5

(***************************************************************************)
(* The fallback generator as a function of its source, the clock and the   *)
(* values Math.random returns.                                             *)
(***************************************************************************)
FallbackSources == Range(SeedSources) \cup { DiscoveredSource }

FallbackClock == { 0, 1000 }

\* whole milliseconds of Math.random() * 12 h: from 0 to just below 12 h
RandomOffsets == { 0, 1, 12 * HourMs - 1 }

GenerateFallback ==
  /\ ~fallback.called
  /\ \E source \in FallbackSources, t \in FallbackClock,
        random \in [1..FallbackCount -> RandomOffsets] :
       fallback' = [called |-> TRUE, sourceId |-> source.id, at |-> t,
                    random |-> random,
                    events |-> FallbackEventsAt(source, t, random)]
  /\ UNCHANGED << collectorVars, discoveryVars, generatorVars, parserVars, storeVars >>

FallbackReturn ==
  /\ fallback.called
  /\ fallback' = NoFallback
  /\ UNCHANGED << collectorVars, discoveryVars, generatorVars, parserVars, storeVars >>

NextFallback ==
  \/ GenerateFallback
  \/ FallbackReturn

SpecFallback == Init /\ [][NextFallback]_vars

\* C17: generateFallbackEvents returns exactly 3 events; each carries the
\* id of the given source, starts strictly after the time of the call and
\* ends its template's duration (2, 1 and 2 hours) after its start.
C17_FallbackEvents ==
  fallback.called =>
     /\ Len(fallback.events) = 3
     /\ \A k \in 1..Len(fallback.events) :
           /\ fallback.events[k].source = fallback.sourceId
           /\ fallback.events[k].startDate > fallback.at
           /\ fallback.events[k].endDate
                = fallback.events[k].startDate + << 2, 1, 2 >>[k] * 3600000

\* a call in which Math.random returned 0 for the first event: its start
\* is the nearest to the time of the call that can be
C17_Witness ==
  /\ fallback.called
  /\ fallback.random[1] = 0
  /\ Len(fallback.events) = 3
  /\ fallback.events[1].startDate = fallback.at + 86400000

(***************************************************************************)
(* syncEventsToStorage (EventDataCollector): the collected events are      *)
(* offered to the store one after the other.  storage.createEvent is a     *)
(* call of the IStorage interface: it resolves or rejects.                 *)
(***************************************************************************)
MaxCollected == 5   \* events of the largest collection handed to the store

\* the events collectFromAllSources returned: n events of several sources
CollectedEvents(n) ==
  [k \in 1..n |->
     [source |-> SeedSources[((k - 1) % Len(SeedSources)) + 1].id,
      origin |-> IF k % 2 = 0 THEN "fallback" ELSE "feed"]]

\* savedCount++ ahead of the await: attempts are counted
SavedCountOfAttempts(savedCount, ok) == savedCount + 1

\* savedCount after one pass of the loop: the increment follows the await,
\* so a rejected createEvent skips it
SavedCount(savedCount, ok) == IF ok THEN savedCount + 1 ELSE savedCount

\* one pass of the loop: the next event is offered to the store; the catch
\* logs a rejection and the loop goes on
SaveNext(s, ok) ==
  [s EXCEPT
     !.attempts = Append(@, [event |-> s.collectedEvents[Len(s.attempts) + 1],
                             ok |-> ok]),
     !.savedCount = SavedCount(@, ok),
     !.stored = IF ok THEN Append(@, s.collectedEvents[Len(s.attempts) + 1]) ELSE @,
     !.pc = "saving"]

SyncStart ==
  /\ sync.pc = "idle"
  /\ \E n \in 0..MaxCollected :
       sync' = [NoSyncCall EXCEPT !.pc = "saving",
                                  !.collectedEvents = CollectedEvents(n)]
  /\ UNCHANGED << collectorVars, discoveryVars, fallbackVars, generatorVars, parserVars >>

CreateEvent ==
  /\ sync.pc = "saving"
  /\ Len(sync.attempts) < Len(sync.collectedEvents)
  /\ \E ok \in BOOLEAN : sync' = SaveNext(sync, ok)
  /\ UNCHANGED << collectorVars, discoveryVars, fallbackVars, generatorVars, parserVars >>

SyncReturn ==
  /\ sync.pc = "saving"
  /\ Len(sync.attempts) = Len(sync.collectedEvents)
  /\ sync' = [sync EXCEPT !.pc = "returned", !.value = sync.savedCount]
  /\ UNCHANGED << collectorVars, discoveryVars, fallbackVars, generatorVars, parserVars >>

SyncDone ==
  /\ sync.pc = "returned"
  /\ sync' = NoSyncCall
  /\ UNCHANGED << collectorVars, discoveryVars, fallbackVars, generatorVars, parserVars >>

NextSync ==
  \/ SyncStart
  \/ CreateEvent
  \/ SyncReturn
  \/ SyncDone

SpecSync == Init /\ [][NextSync]_vars

\* the events of the attempts the store accepted, in order
Accepted(attempts) ==
  LET ok == SelectSeq(attempts, LAMBDA a : a.ok)
  IN  [k \in 1..Len(ok) |-> ok[k].event]

\* C21: syncEventsToStorage offers the collected events to the store one at
\* a time and in order; a rejected createEvent neither ends the loop nor
\* makes the call fail: the call returns after every event was offered, and
\* the count it returns is the number of events the store accepted.
C21_SyncCountsSuccesses ==
  /\ sync.pc \in {"idle", "saving", "returned"}
  /\ Len(sync.attempts) <= Len(sync.collectedEvents)
  /\ \A k \in 1..Len(sync.attempts) :
        sync.attempts[k].event = sync.collectedEvents[k]
  /\ sync.savedCount = Len(Accepted(sync.attempts))
  /\ sync.stored = Accepted(sync.attempts)
  /\ sync.pc = "returned" =>
        /\ Len(sync.attempts) = Len(sync.collectedEvents)
        /\ sync.value = Len(Accepted(sync.attempts))

\* a returned call in which the store rejected an event and accepted a
\* later one: the count is below the number of events and above 0
C21_Witness ==
  /\ sync.pc = "returned"
  /\ \E j, k \in 1..Len(sync.attempts) :
        j < k /\ ~sync.attempts[j].ok /\ sync.attempts[k].ok
  /\ sync.value > 0
  /\ sync.value < Len(sync.collectedEvents)

(***************************************************************************)
(* The candidate domains of a place: the slugs substituted into the        *)
(* patterns of the three families, as discoverGovernmentFeeds,             *)
(* discoverSchoolFeeds and discoverChamberFeeds do in turn.                *)
(***************************************************************************)
\* pattern.replace('{city}', citySlug).replace('{state}', stateSlug) for
\* every pattern of a family
DomainsOfFamily(patterns, slugs) ==
  [k \in 1..Len(patterns) |-> DomainOf(patterns[k], slugs.city, slugs.state)]

\* the domains one discovery call probes, in the order it probes them
CandidateDomainSeq(location) ==
  DomainsOfFamily(governmentDomainPatterns, Slugs(location))
    \o DomainsOfFamily(schoolDistrictPatterns, Slugs(location))
    \o DomainsOfFamily(chamberPatterns, Slugs(location))

PlaceCities ==
  { "Springfield", "St. Paul", "New York", "Winston-Salem", "O'Fallon",
    "SAN JOSE", " Boise ", "Coeur d'Alene", "29 Palms", "Ames" }

\* the state of a LocationInfo given to discoverFeedsForLocation
PlaceStates ==
  { "IL", "mn", "Ny", "New York", "N Y", " TX", "D.C.", "ca", "WA", "Or" }

\* the state name given to discoverFeedsForPopularLocation
PlaceStateNames == { " Illinois ", "new york", "NY State", "N Carolina" }

\* the call has produced the candidate domains of location
DomainsGenerated(location) ==
  domains' = [called |-> TRUE, city |-> location.city, state |-> location.state,
              candidates |-> CandidateDomainSeq(location)]

GenerateForLocation ==
  /\ ~domains.called
  /\ \E city \in PlaceCities, state \in PlaceStates :
       DomainsGenerated([city |-> city, state |-> state])
  /\ UNCHANGED << collectorVars, discoveryVars, fallbackVars, parserVars, storeVars >>

GenerateForPopularLocation ==
  /\ ~domains.called
  /\ \E cityName \in PlaceCities, stateName \in PlaceStateNames :
       DomainsGenerated(PopularLocation(cityName, stateName))
  /\ UNCHANGED << collectorVars, discoveryVars, fallbackVars, parserVars, storeVars >>

DomainsReturn ==
  /\ domains.called
  /\ domains' = NoDomains
  /\ UNCHANGED << collectorVars, discoveryVars, fallbackVars, parserVars, storeVars >>

NextDomains ==
  \/ GenerateForLocation
  \/ GenerateForPopularLocation
  \/ DomainsReturn

SpecDomains == Init /\ [][NextDomains]_vars

\* s holds an upper case letter or a whitespace character
HasUpperOrSpace(s) ==
  \E k \in 1..Len(s) : CharAt(s, k) \in DOMAIN LowerTable \/ IsSpace(CharAt(s, k))

\* C22: for every place, whatever its city and state strings, the
\* candidate domains of the government, school-district and chamber
\* patterns are the same whenever they are generated again, and none of
\* them holds an upper case letter or a whitespace character.
C22_DomainsLowercaseNoWhitespace ==
  domains.called =>
     /\ domains.candidates
          = CandidateDomainSeq([city |-> domains.city, state |-> domains.state])
     /\ \A k \in 1..Len(domains.candidates) : ~HasUpperOrSpace(domains.candidates[k])

(***************************************************************************)
(* Further properties of the registry.                                     *)
(***************************************************************************)
\* C23: removeSource(id) returns true exactly when a source with that id is
\* in the registry; it then removes that source and no other, the order of
\* the others kept; for an id not in the registry it returns false and
\* leaves the registry as it is.  No source object is changed.
C23_RemoveSourceExact ==
  [][ ( RegistryCall /\ ret'.op = "removeSource" ) =>
        LET present == \E k \in 1..Len(sources) : IdOf(sources[k]) = ret'.arg.id
        IN  /\ ret'.value = present
            /\ heap' = heap
            /\ IF present
               THEN /\ Len(sources') = Len(sources) - 1
                    /\ sources' = SelectSeq(sources, LAMBDA r : IdOf(r) # ret'.arg.id)
               ELSE sources' = sources ]_vars

\* removeSource has returned true for the first seeded source: the registry
\* holds the other initial sources, in their order
C23_Witness ==
  /\ ret.op = "removeSource"
  /\ ret.value = TRUE
  /\ ret.arg.id = SeedSources[1].id
  /\ [k \in 1..Len(sources) |-> IdOf(sources[k])]
       = [k \in 1..(Len(InitialSources) - 1) |-> InitialSources[k + 1].id]

(***************************************************************************)
(* Further properties of discovery.                                        *)
(***************************************************************************)
\* the host of a URL ends in the government top-level suffix
GovHost(u) == EndsWith(UrlOrigin(u), ".gov")

\* C24: validateFeedUrl adds the government boost of 0.2 to the base
\* confidence of a feed if and only if the host of its URL ends in .gov: a
\* URL with another host gets no boost, also when ".gov" occurs elsewhere in
\* the URL.
C24_GovBoostOnlyForGovHost ==
  (dpc = "returned") =>
     \A k \in 1..Len(probe.general) :
        LET u == probe.general[k].source.feedUrl
            base == ClassifyFeed(u, HeadOf(probe.net, u).contentType).confidence
        IN  probe.general[k].confidence
              = ClampConfidence(IF GovHost(u) THEN base + GovBoost ELSE base)

(***************************************************************************)
(* The event a parser emits for one entry of a fetched feed.  An entry is  *)
(* [title, description, start, date, end]: "" is an absent text, 0 an      *)
(* absent date; `start` is DTSTART / pubDate / start_date / the date text  *)
(* of the page, `date` the JSON alias, `end` DTEND / end_date.             *)
(***************************************************************************)
TextLimit == 300

NoDate == 0

\* text.replace(/<[^>]*>/g, ''): a match runs from a "<" to the first ">"
\* after it; without a ">" after the first "<" nothing more matches
RECURSIVE StripTags(_)
StripTags(s) ==
  IF IndexFrom(s, "<", 1) = 0 \/ IndexFrom(s, ">", IndexFrom(s, "<", 1) + 1) = 0
  THEN s
  ELSE SubSeq(s, 1, IndexFrom(s, "<", 1) - 1)
         \o StripTags(After(s, IndexFrom(s, ">", IndexFrom(s, "<", 1) + 1)))

\* the replacement at the first "&" of s, at index amp, the first ";"
\* after it being at index semi: "&;" is no match
RECURSIVE ReplaceEntities(_)
EntityAt(s, amp, semi) ==
  IF semi = 0 THEN s
  ELSE IF semi = amp + 1 THEN SubSeq(s, 1, amp) \o ReplaceEntities(After(s, amp))
  ELSE (SubSeq(s, 1, amp - 1) \o " ") \o ReplaceEntities(After(s, semi))

\* text.replace(/&[^;]+;/g, ' ')
ReplaceEntities(s) ==
  IF IndexFrom(s, "&", 1) = 0 THEN s
  ELSE EntityAt(s, IndexFrom(s, "&", 1), IndexFrom(s, ";", IndexFrom(s, "&", 1) + 1))

\* text.substring(0, n)
Substring(s, n) == SubSeq(s, 1, Min(n, Len(s)))

\* cleanText
CleanText(text) ==
  Substring(Trim(ReplaceSpaceRuns(ReplaceEntities(StripTags(text)), " ")), TextLimit)

\* a || b for texts: the empty string is falsy
OrText(a, b) == IF a # "" THEN a ELSE b

\* a || b for dates: an absent date is falsy
OrDate(a, b) == IF a # NoDate THEN a ELSE b

DefaultDescription == "Event details available on website"

\* the record a parser pushes
EventRecord(source, title, description, startDate, endDate) ==
  [source |-> source.id, title |-> title, description |-> description,
   startDate |-> startDate, endDate |-> endDate]

\* parseICalFeed: a VEVENT without start or summary is skipped
ICalEvent(source, e) ==
  IF e.start = NoDate \/ e.title = "" THEN << >>
  ELSE << EventRecord(source, e.title, OrText(e.description, DefaultDescription),
                      e.start, OrDate(e.end, e.start + HourMs)) >>

\* parseRSSFeed: t is the time of new Date()
RSSEvent(source, e, t) ==
  << EventRecord(source, CleanText(OrText(e.title, "Untitled Event")),
                 CleanText(OrText(e.description, DefaultDescription)),
                 OrDate(e.start, t), OrDate(e.start, t) + 2 * HourMs) >>

\* parseJSONFeed
JSONEvent(source, e, t) ==
  << EventRecord(source, OrText(e.title, "Untitled Event"),
                 OrText(e.description, DefaultDescription),
                 OrDate(e.start, OrDate(e.date, t)),
                 OrDate(e.end, OrDate(e.date,
                                      OrDate(e.start, OrDate(e.date, t)) + 2 * HourMs))) >>

\* scrapeHTMLEvents: an element whose title has at most 3 characters is skipped
HTMLEvent(source, e, t) ==
  IF Len(OrText(Trim(e.title), "Community Event")) <= 3 THEN << >>
  ELSE << EventRecord(source, CleanText(OrText(Trim(e.title), "Community Event")),
                      CleanText(Substring(OrText(Trim(e.description), DefaultDescription),
                                          TextLimit)),
                      OrDate(e.start, t), OrDate(e.start, t) + 2 * HourMs) >>

\* the events the parser of a feed type emits for one entry
EntryEvents(feedType, source, e, t) ==
  CASE feedType = "ical"   -> ICalEvent(source, e)
    [] feedType = "rss"    -> RSSEvent(source, e, t)
    [] feedType = "json"   -> JSONEvent(source, e, t)
    [] feedType = "webcal" -> ICalEvent(source, e)
    [] feedType = "html"   -> HTMLEvent(source, e, t)

RECURSIVE Repeat(_, _)
Repeat(s, n) == IF n = 0 THEN "" ELSE s \o Repeat(s, n - 1)

\* a text of 323 characters
LongText == Repeat("Townhall meeting ", 19)

EntryTitles ==
  { "", "Budget Hearing", "<b>Budget</b> Hearing &amp; Vote", LongText }

EntryDescriptions == { "", "Free <i>entry</i>   for all", LongText }

Entries ==
  { [title |-> ti, description |-> de, start |-> st, date |-> da, end |-> en] :
      ti \in EntryTitles, de \in EntryDescriptions,
      st \in {NoDate, 1000}, da \in {NoDate, 2000}, en \in {NoDate, 5000} }

FeedTypes == { "ical", "rss", "json", "webcal", "html" }

ParseEntry ==
  /\ ~parsed.called
  /\ \E feedType \in FeedTypes, e \in Entries :
       parsed' = [called |-> TRUE, feedType |-> feedType, at |-> now, entry |-> e,
                  events |-> EntryEvents(feedType, SeedSources[1], e, now)]
  /\ UNCHANGED << collectorVars, discoveryVars, fallbackVars, generatorVars, storeVars >>

ParseReturn ==
  /\ parsed.called
  /\ parsed' = NoParse
  /\ UNCHANGED << collectorVars, discoveryVars, fallbackVars, generatorVars, storeVars >>

NextParse ==
  \/ ParseEntry
  \/ ParseReturn

SpecParse == Init /\ [][NextParse]_vars

\* s holds a markup tag: a "<" with a ">" after it
HasTag(s) ==
  \E j \in 1..Len(s) : CharAt(s, j) = "<" /\ IndexFrom(s, ">", j + 1) # 0

\* C25: every event emitted by a parser (ical, rss, json, webcal, html) has
\* a title and a description that went through the text normalizer: neither
\* holds a markup tag and neither is longer than 300 characters.
C25_TextNormalized ==
  parsed.called =>
     \A k \in 1..Len(parsed.events) :
        /\ ~HasTag(parsed.events[k].title)
        /\ Len(parsed.events[k].title) <= 300
        /\ ~HasTag(parsed.events[k].description)
        /\ Len(parsed.events[k].description) <= 300

\* C26: the event emitted for a JSON entry without an end field ends 2
\* hours after it starts, whether start_date or date gave the start.
C26_JsonDefaultEnd ==
  (parsed.called /\ parsed.feedType = "json" /\ parsed.entry.end = NoDate) =>
     \A k \in 1..Len(parsed.events) :
        parsed.events[k].endDate = parsed.events[k].startDate + 2 * 3600000

\* C27: the sequence discoverFeedsForPopularLocation returns (the general
\* discovery and the known-pattern feeds, de-duplicated) is ordered by
\* non-increasing confidence.
C27_PopularSortedByConfidence ==
  (dpc = "returned" /\ probe.op = "popular") =>
     \A k \in 1..(Len(discovered) - 1) :
        discovered[k].confidence >= discovered[k + 1].confidence

\* the number of URLs of a sequence that lie on the domain d
CountOn(urls, d) ==
  Len(SelectSeq(urls, LAMBDA u : UrlOrigin(u) = "https://" \o d))

\* the number of feeds of a sequence whose feed URL lies on the domain d
FeedsOn(feeds, d) ==
  Len(SelectSeq(feeds, LAMBDA f : UrlOrigin(f.source.feedUrl) = "https://" \o d))

\* the number of probes of the domain d in a call probing the domains seq
ProbesOf(d, seq) == Cardinality({ k \in 1..Len(seq) : seq[k] = d })

\* the domains the discovery call in `probe` has probed, in order
ProbedDomains == CandidateDomainSeq([city |-> probe.city, state |-> probe.state])

Dispatched ==
  [k \in 1..Len(settled) |-> settled[k].src]
    \o (IF pc = "await" THEN [k \in 1..Len(tasks) |-> tasks[k].src] ELSE << >>)

\* C29: within one run every source that was active when the run started
\* gets exactly one fetch-and-parse task, in exactly one batch: no two
\* tasks of the run are for the same source, no task is for another source,
\* and when the run is done no active source was left out.
C29_OneTaskPerActiveSource ==
  /\ \A j, k \in 1..Len(Dispatched) : j # k => Dispatched[j] # Dispatched[k]
  /\ Range(Dispatched) \subseteq startActive
  /\ \A j, k \in 1..Len(settled) :
        settled[j].src = settled[k].src => settled[j].batch = settled[k].batch
  /\ pc = "done" =>
        /\ Range(Dispatched) = startActive
        /\ Len(Dispatched) = Cardinality(startActive)

\* a finished run over more than 5 sources: the tasks of its first batch
\* and those of its second are for different sources, none left out
C29_Witness ==
  /\ pc = "done"
  /\ Cardinality(startActive) > 5
  /\ Cardinality({ k \in 1..Len(settled) : settled[k].batch = 0 }) = 5
  /\ Cardinality({ settled[k].src : k \in 1..Len(settled) }) = Cardinality(startActive)

\* a step taken while the run is suspended leaves the run's list of sources
\* as it is; a registry call dispatches nothing, a step of the run adds
\* tasks behind the ones dispatched before
SuspendedRunKept ==
  pc \in {"await", "delay"} =>
     ( /\ activeSources' = activeSources
       /\ (RegistryCall => Dispatched' = Dispatched)
       /\ SubSeq(Dispatched', 1, Len(Dispatched)) = Dispatched )

\* the run's sources are those that were active when it started
RunOfStartActive ==
  pc \in {"await", "delay", "done"} =>
     ( /\ Range(activeSources) = startActive
       /\ Range(Dispatched) \subseteq startActive
       /\ (pc = "done" => Dispatched = activeSources) )

\* C30: the sources a run collects are fixed when it starts.  While the
\* run is suspended on a batch or on the pacing delay its list of sources
\* stays as it is, and a toggleSource, addSource or removeSource call
\* dispatches nothing; the run's tasks are for sources that were active at
\* the start only, and the finished run has collected exactly those
\* sources, each once, whatever the registry holds by then.
C30_RunSourcesFixedAtStart == []RunOfStartActive /\ [][SuspendedRunKept]_vars

\* a finished run of two batches during which a source it collects was
\* switched off or removed and another active source was registered
C30_Witness ==
  /\ pc = "done"
  /\ Len(activeSources) > 5
  /\ Dispatched = activeSources
  /\ \E r \in startActive : r \notin Range(sources) \/ ~heap[r].isActive
  /\ \E r \in Range(sources) : heap[r].isActive /\ r \notin startActive

====
